---- MODULE Spec2Model ----
(***************************************************************************)
(* Model of easy_i18n (src/src/lib.rs): the translation store I18n, the    *)
(* directory loader, the placeholder interpolation of trans_with_inter and *)
(* the global registry I18N (a Mutex<I18n>) with the entry points          *)
(* set_lang, set_source and the four arms of the i18n! macro.              *)
(*                                                                         *)
(* Strings that the code inspects character by character (language ids,    *)
(* file names, keys and translated texts) are sequences of one-character   *)
(* strings.  Namespaces are only compared for equality and are TLA+        *)
(* strings.  Option<T> is a sequence of length 0 (None) or 1 (Some).       *)
(***************************************************************************)
EXTENDS Integers, Sequences, FiniteSets, TLC

\* ------------------------------------------------------------------ bounds
\* Number of caller threads of the global registry.
NumThreads == 2
\* Longest text handed directly to trans_with_inter in SpecInter.
MaxTextLen == 4

\* ------------------------------------------------------- program constants
\* u8::MAX, the largest ordinal parse::<u8>() accepts (lib.rs:79).
U8_MAX == 255

Threads == 1..NumThreads

None == <<>>
Some(x) == <<x>>

\* ------------------------------------------------------------ str helpers
LowerLetters ==
  <<"a","b","c","d","e","f","g","h","i","j","k","l","m",
    "n","o","p","q","r","s","t","u","v","w","x","y","z">>
UpperLetters ==
  <<"A","B","C","D","E","F","G","H","I","J","K","L","M",
    "N","O","P","Q","R","S","T","U","V","W","X","Y","Z">>

\* U+00DF, whose upper case is the two characters "SS".
SharpS == "<U+00DF>"

\* char::to_uppercase: a string, since one character may map to several.
char_to_uppercase(c) ==
  IF \E i \in 1..26 : LowerLetters[i] = c
  THEN <<UpperLetters[CHOOSE i \in 1..26 : LowerLetters[i] = c]>>
  ELSE IF c = SharpS THEN <<"S","S">> ELSE <<c>>

char_to_lowercase(c) ==
  IF \E i \in 1..26 : UpperLetters[i] = c
  THEN <<LowerLetters[CHOOSE i \in 1..26 : UpperLetters[i] = c]>>
  ELSE <<c>>

RECURSIVE to_uppercase(_)
to_uppercase(s) ==
  IF s = <<>> THEN <<>> ELSE char_to_uppercase(Head(s)) \o to_uppercase(Tail(s))

RECURSIVE to_lowercase(_)
to_lowercase(s) ==
  IF s = <<>> THEN <<>> ELSE char_to_lowercase(Head(s)) \o to_lowercase(Tail(s))

\* str::rsplit_once(c): scans from the right for the last c;
\* Some(<<before, after>>) or None.
RECURSIVE rsplit_from(_, _, _)
rsplit_from(s, c, i) ==
  IF i = 0 THEN None
  ELSE IF s[i] = c THEN Some(<<SubSeq(s, 1, i - 1), SubSeq(s, i + 1, Len(s))>>)
  ELSE rsplit_from(s, c, i - 1)

rsplit_once(s, c) == rsplit_from(s, c, Len(s))

\* ---------------------------------------------------------------- HashMap
EmptyMap == [x \in {} |-> x]
\* HashMap::insert: a later insert under the same key replaces the earlier.
insert(map, k, v) == (k :> v) @@ map
\* HashMap::get
get(map, k) == IF k \in DOMAIN map THEN Some(map[k]) ELSE None

\* ------------------------------------------------------------------ Source
\* get_val with another default namespace than "common".
get_val_default_formal(src, key, ns) ==
  LET n == IF ns = None THEN "formal" ELSE ns[1]
      m == get(src, n)
  IN  IF m = None THEN None ELSE get(m[1], key)

\* Source::get_val (lib.rs:98-103)
get_val(src, key, ns) ==
  LET n == IF ns = None THEN "common" ELSE ns[1]
      m == get(src, n)
  IN  IF m = None THEN None ELSE get(m[1], key)

\* ------------------------------------------------------------------- I18n
\* I18n::new (lib.rs:52-57)
I18n_new(l) == [lang |-> to_uppercase(l), source |-> EmptyMap]

\* set_lang without the case normalization.
I18n_set_lang_raw(l) == l

\* I18n::set_lang (lib.rs:59-61): the new value of self.lang
I18n_set_lang(l) == to_uppercase(l)

\* set_source that merges the loaded tables into the old ones.
I18n_set_source_merge(old, loaded) == loaded @@ old

\* I18n::set_source (lib.rs:63-65): the new value of self.source, given the
\* old one and the map load_source returned.
I18n_set_source(old, loaded) == loaded

\* translate that falls back to the empty string instead of the key.
translate_empty_fallback(self, text, ns) ==
  LET s == get(self.source, self.lang)
      v == IF s = None THEN None ELSE get_val(s[1], text, ns)
  IN  IF v = None THEN <<>> ELSE v[1]

\* I18n::translate (lib.rs:67-72)
translate(self, text, ns) ==
  LET s == get(self.source, self.lang)
      v == IF s = None THEN None ELSE get_val(s[1], text, ns)
  IN  IF v = None THEN text ELSE v[1]

\* ---------------------------------------------------- placeholder tokens
\* U+0663 ARABIC-INDIC DIGIT THREE: matched by \d, rejected by parse::<u8>.
ArabicThree == "<U+0663>"

AsciiDigits == <<"0","1","2","3","4","5","6","7","8","9">>

is_ascii_digit(c) == \E i \in 1..10 : AsciiDigits[i] = c

\* \d of INTER_REG (lib.rs:29): any Unicode decimal digit.
is_digit(c) == is_ascii_digit(c) \/ c = ArabicThree

digit_value(c) == (CHOOSE i \in 1..10 : AsciiDigits[i] = c) - 1

\* Decimal value of a run of ASCII digits.
RECURSIVE decimal(_)
decimal(ds) ==
  IF ds = <<>> THEN 0
  ELSE 10 * decimal(SubSeq(ds, 1, Len(ds) - 1)) + digit_value(ds[Len(ds)])

\* str::parse::<u8>().ok() (lib.rs:79): None on a non-ASCII digit and on a
\* value above u8::MAX.
parse_u8(ds) ==
  IF (\A i \in 1..Len(ds) : is_ascii_digit(ds[i])) /\ decimal(ds) <= U8_MAX
  THEN Some(decimal(ds))
  ELSE None

\* Last index of the digit run that starts at i (i - 1 when text[i] is no digit).
RECURSIVE digit_run_end(_, _)
digit_run_end(text, i) ==
  IF i <= Len(text) /\ is_digit(text[i]) THEN digit_run_end(text, i + 1) ELSE i - 1

\* The replacement closure of trans_with_inter (lib.rs:77-83) for one match
\* whose digits are ds.  `v as usize - 1` with v = 0 panics when the build
\* checks overflow and wraps to usize::MAX otherwise, where vals.get is None.
replacement(ds, vals, checks) ==
  LET v == parse_u8(ds)
  IN  IF v = None THEN [kind |-> "ok", val |-> <<>>]
      ELSE IF v[1] = 0
           THEN IF checks THEN [kind |-> "panic", val |-> <<>>]
                ELSE [kind |-> "ok", val |-> <<>>]
      ELSE IF v[1] <= Len(vals) THEN [kind |-> "ok", val |-> vals[v[1]]]
      ELSE [kind |-> "ok", val |-> <<>>]

\* Regex::replace_all with INTER_REG (lib.rs:76-84) from position i on:
\* leftmost maximal matches of %\d+, left to right, replacements not
\* rescanned; a panic of the closure ends the call.
RECURSIVE replace_all(_, _, _, _)
replace_all(text, i, vals, checks) ==
  IF i > Len(text) THEN [kind |-> "ok", val |-> <<>>]
  ELSE LET e == digit_run_end(text, i + 1)
       IN  IF text[i] = "%" /\ e > i
           THEN LET r == replacement(SubSeq(text, i + 1, e), vals, checks)
                IN  IF r.kind = "panic" THEN r
                    ELSE LET rest == replace_all(text, e + 1, vals, checks)
                         IN  IF rest.kind = "panic" THEN rest
                             ELSE [kind |-> "ok", val |-> r.val \o rest.val]
           ELSE LET rest == replace_all(text, i + 1, vals, checks)
                IN  IF rest.kind = "panic" THEN rest
                    ELSE [kind |-> "ok", val |-> <<text[i]>> \o rest.val]

\* I18n::trans_with_inter (lib.rs:74-85): [kind |-> "ok", val |-> string] or
\* [kind |-> "panic"].
trans_with_inter(self, text, vals, ns, checks) ==
  replace_all(translate(self, text, ns), 1, vals, checks)

\* ------------------------------------------------------------- file system
\* A directory entry: its file name, whether the name is valid UTF-8
\* (to_str), whether it is a directory, and what Source::from_path
\* (lib.rs:91-96) makes of it: Ok(table) or Err.
Entry(name, utf8, is_dir, ok, table) ==
  [name |-> name, utf8 |-> utf8, is_dir |-> is_dir, ok |-> ok, table |-> table]

\* Source::from_path (lib.rs:91-96); the JSON decoding itself is serde's.
from_path(entry) == IF entry.ok THEN Some(entry.table) ELSE None

\* The loop body with the stem lower-cased instead of upper-cased.
load_entry_lowercase(map, entry) ==
  IF entry.is_dir \/ ~entry.utf8 THEN map
  ELSE LET sp == rsplit_once(entry.name, ".")
       IN  IF sp = None THEN map
           ELSE LET file_name == sp[1][1]
                    file_type == sp[1][2]
                IN  IF to_lowercase(file_type) = <<"j","s","o","n">>
                    THEN LET src == from_path(entry)
                         IN  IF src = None THEN map
                             ELSE insert(map, to_lowercase(file_name), src[1])
                    ELSE map

\* One iteration of the loop of load_source (lib.rs:109-124).
load_entry(map, entry) ==
  IF entry.is_dir \/ ~entry.utf8 THEN map
  ELSE LET sp == rsplit_once(entry.name, ".")
       IN  IF sp = None THEN map
           ELSE LET file_name == sp[1][1]
                    file_type == sp[1][2]
                IN  IF to_lowercase(file_type) = <<"j","s","o","n">>
                    THEN LET src == from_path(entry)
                         IN  IF src = None THEN map
                             ELSE insert(map, to_uppercase(file_name), src[1])
                    ELSE map

\* load_source (lib.rs:106-127) as a whole: entries in iteration order.
RECURSIVE load_from(_, _, _)
load_from(map, entries, i) ==
  IF i > Len(entries) THEN map
  ELSE load_from(load_entry(map, entries[i]), entries, i + 1)

load_source(path) == IF path.exists THEN load_from(EmptyMap, path.entries, 1) ELSE EmptyMap

\* ------------------------------------------------------------------ inputs
en == <<"e","n">>
EN == <<"E","N">>
En == <<"E","n">>
zh == <<"z","h">>
fr == <<"f","r">>
json == <<"j","s","o","n">>
Name(stem, ext) == stem \o <<".">> \o ext

Hi == <<"h","i">>
Bye == <<"b","y","e">>
Score == <<"s","%","1">>
PctZero == <<"%","0">>

Hello == <<"h","e","l","l","o">>
HelloAlt == <<"H","I">>
GoodDay == <<"G","d">>
NiHao == <<"n","h">>
Ciao == <<"c","i","a","o">>
Scores == <<"S",":","%","1",",","%","2">>

\* Parsed language files (what serde makes of each JSON document).
TableEn ==
  ("common" :> ((Hi :> Hello) @@ (Score :> Scores))) @@ ("formal" :> (Hi :> GoodDay))
TableEnAlt == ("common" :> (Hi :> HelloAlt))
TableZh == ("common" :> (Hi :> NiHao)) @@ ("Common" :> (Bye :> Ciao))
TableFr == ("common" :> (Hi :> PctZero))

\* The directories set_source is called on: a missing path, a directory
\* with every kind of entry the loader tells apart, two directories whose
\* file stems collide after normalization (in both iteration orders), and
\* one with dotted and empty stems.
Missing == [exists |-> FALSE, entries |-> <<>>]
DirMixed ==
  [exists |-> TRUE, entries |->
    << Entry(Name(en, json), TRUE, FALSE, TRUE, TableEn),
       Entry(Name(zh, <<"J","S","O","N">>), TRUE, FALSE, TRUE, TableZh),
       Entry(Name(<<"b","a","d">>, json), TRUE, FALSE, FALSE, EmptyMap),
       Entry(Name(fr, <<"t","x","t">>), TRUE, FALSE, TRUE, TableFr),
       Entry(Name(fr, json), TRUE, TRUE, FALSE, EmptyMap),
       Entry(<<"d","e">>, TRUE, FALSE, TRUE, TableEnAlt),
       Entry(Name(<<"i","t">>, json), FALSE, FALSE, TRUE, TableEnAlt) >>]
DirCollide ==
  [exists |-> TRUE, entries |->
    << Entry(Name(EN, json), TRUE, FALSE, TRUE, TableEnAlt),
       Entry(Name(en, json), TRUE, FALSE, TRUE, TableEn) >>]
DirCollideRev ==
  [exists |-> TRUE, entries |->
    << Entry(Name(en, json), TRUE, FALSE, TRUE, TableEn),
       Entry(Name(EN, json), TRUE, FALSE, TRUE, TableEnAlt) >>]
DirDotted ==
  [exists |-> TRUE, entries |->
    << Entry(Name(fr, <<"J","s","o","n">>), TRUE, FALSE, TRUE, TableFr),
       Entry(Name(<<"z",".","h">>, json), TRUE, FALSE, TRUE, TableZh),
       Entry(Name(<<>>, json), TRUE, FALSE, TRUE, TableEnAlt) >>]

FileSystem ==
  ("missing" :> Missing) @@ ("mixed" :> DirMixed) @@ ("collide" :> DirCollide)
    @@ ("collide_rev" :> DirCollideRev) @@ ("dotted" :> DirDotted)
Paths == DOMAIN FileSystem

LangInputs == {en, EN, En, zh, fr}
Keys == {Hi, Bye, Score, PctZero}
NsInputs == {None, Some("common"), Some("formal"), Some("Common")}
\* Value lists of the macro arms with arguments (at least one argument).
ValInputs == { << <<"8","8">>, <<"1","0","0">> >>, << <<"x">> >> }

\* usize::to_string
RECURSIVE to_string(_)
to_string(n) ==
  IF n < 10 THEN <<AsciiDigits[n + 1]>>
  ELSE to_string(n \div 10) \o <<AsciiDigits[(n % 10) + 1]>>

\* Texts and value lists handed directly to trans_with_inter.
Chars == {"%", "0", "1", "2", "5", "6", "a", ArabicThree}
Texts == UNION {[1..n -> Chars] : n \in 0..MaxTextLen}
ManyVals == [i \in 1..(U8_MAX + 1) |-> <<"v">> \o to_string(i)]
InterVals ==
  { <<>>, << <<"x">> >>, << <<"8","8">>, <<"1","0","0">> >>,
    << <<"%","2">>, <<"b">> >>, ManyVals }

\* ------------------------------------------------------------------- state
VARIABLES
  lang,             \* I18N.lang
  source,           \* I18N.source: LanguageId -> Source
  lockHolder,       \* the thread holding the MutexGuard of I18N, or None
  poisoned,         \* the poison flag of the Mutex
  overflow_checks,  \* whether the build checks arithmetic overflow
  pc,               \* per thread: where it is in its call
  op,               \* per thread: the call it is in and its arguments
  local,            \* per thread: map and position of load_source, text
  ret               \* per thread: the value its call is about to return

vars == <<lang, source, lockHolder, poisoned, overflow_checks, pc, op, local, ret>>

NoOp ==
  [kind |-> "none", lang |-> <<>>, path |-> "", key |-> <<>>, ns |-> None,
   vals |-> <<>>, nested |-> "none"]
NoLocal == [map |-> EmptyMap, idx |-> 0, text |-> <<>>]
NoRet == [kind |-> "none", val |-> <<>>]

\* The calls of each entry point.
OpsOf(kind) ==
  IF kind = "set_lang" THEN {[NoOp EXCEPT !.kind = kind, !.lang = l] : l \in LangInputs}
  ELSE IF kind = "set_source" THEN {[NoOp EXCEPT !.kind = kind, !.path = p] : p \in Paths}
  ELSE {[NoOp EXCEPT !.kind = kind, !.key = k, !.ns = n, !.vals = v] :
          k \in Keys, n \in NsInputs, v \in ValInputs \cup {<<>>}}

Self == [lang |-> lang, source |-> source]

\* I18N (lib.rs:31): I18n::new("cn") behind an unlocked, unpoisoned Mutex.
Init ==
  /\ lang = I18n_new(<<"c","n">>).lang
  /\ source = I18n_new(<<"c","n">>).source
  /\ lockHolder = None
  /\ poisoned = FALSE
  /\ overflow_checks \in BOOLEAN
  /\ pc = [t \in Threads |-> "idle"]
  /\ op = [t \in Threads |-> NoOp]
  /\ local = [t \in Threads |-> NoLocal]
  /\ ret = [t \in Threads |-> NoRet]

\* ----------------------------------------------------------------- actions
\* A thread enters set_lang (lib.rs:33), set_source (lib.rs:38) or an arm of
\* i18n! (lib.rs:131-165); its arguments are drawn when it gets the lock.
Call(t) ==
  /\ pc[t] = "idle"
  /\ \E kind \in {"set_lang", "set_source", "i18n"} :
       op' = [op EXCEPT ![t] = [NoOp EXCEPT !.kind = kind]]
  /\ pc' = [pc EXCEPT ![t] = "lock"]
  /\ UNCHANGED <<lang, source, lockHolder, poisoned, overflow_checks, local, ret>>

\* A lock that excludes nobody.
lock_unguarded(holder) == TRUE

\* Mutex::lock blocks while another guard is alive.
lock_available(holder) == holder = None

\* I18N.lock().unwrap() on an unpoisoned mutex (lib.rs:34,39,134,144,151,161).
Lock(t) ==
  /\ pc[t] = "lock"
  /\ lock_available(lockHolder)
  /\ ~poisoned
  /\ lockHolder' = Some(t)
  /\ \E o \in OpsOf(op[t].kind) : op' = [op EXCEPT ![t] = o]
  /\ pc' = [pc EXCEPT ![t] = "locked"]
  /\ UNCHANGED <<lang, source, poisoned, overflow_checks, local, ret>>

\* I18N.lock().unwrap() on a poisoned mutex: lock() takes the mutex and
\* returns Err(PoisonError(guard)); unwrap panics.
LockPoisoned(t) ==
  /\ pc[t] = "lock"
  /\ lock_available(lockHolder)
  /\ poisoned
  /\ lockHolder' = Some(t)
  /\ pc' = [pc EXCEPT ![t] = "panicking"]
  /\ ret' = [ret EXCEPT ![t] = [kind |-> "panic", val |-> <<>>]]
  /\ UNCHANGED <<lang, source, poisoned, overflow_checks, op, local>>

\* set_lang (lib.rs:35): i18n.set_lang(lang)
SetLang(t) ==
  /\ pc[t] = "locked" /\ op[t].kind = "set_lang"
  /\ lang' = I18n_set_lang(op[t].lang)
  /\ pc' = [pc EXCEPT ![t] = "ret"]
  /\ UNCHANGED <<source, lockHolder, poisoned, overflow_checks, op, local, ret>>

\* load_source (lib.rs:107-108): the empty map and fs::read_dir
ReadDir(t) ==
  /\ pc[t] = "locked" /\ op[t].kind = "set_source"
  /\ local' = [local EXCEPT ![t] = [NoLocal EXCEPT !.idx = 1]]
  /\ pc' = [pc EXCEPT ![t] =
       IF FileSystem[op[t].path].exists /\ FileSystem[op[t].path].entries # <<>>
       THEN "load" ELSE "assign"]
  /\ UNCHANGED <<lang, source, lockHolder, poisoned, overflow_checks, op, ret>>

\* load_source (lib.rs:109-124): one directory entry
LoadEntry(t) ==
  /\ pc[t] = "load"
  /\ LET entries == FileSystem[op[t].path].entries
         i == local[t].idx
     IN  /\ local' = [local EXCEPT ![t].map = load_entry(local[t].map, entries[i]),
                                   ![t].idx = i + 1]
         /\ pc' = [pc EXCEPT ![t] = IF i = Len(entries) THEN "assign" ELSE "load"]
  /\ UNCHANGED <<lang, source, lockHolder, poisoned, overflow_checks, op, ret>>

\* I18n::set_source (lib.rs:64): self.source = the map load_source returned
SetSource(t) ==
  /\ pc[t] = "assign"
  /\ source' = I18n_set_source(source, local[t].map)
  /\ pc' = [pc EXCEPT ![t] = "ret"]
  /\ UNCHANGED <<lang, lockHolder, poisoned, overflow_checks, op, local, ret>>

\* i18n! (lib.rs:135,145,152,162): the key and namespace expressions are
\* evaluated with the guard alive, then i18n.translate is called.  The arms
\* without arguments return its result.  An argument expression is a plain
\* value or itself an i18n! invocation; op.nested records which one was.
Translate(t) ==
  /\ pc[t] = "locked" /\ op[t].kind = "i18n"
  /\ \E nested \in BOOLEAN :
       IF nested
       THEN /\ pc' = [pc EXCEPT ![t] = "relock"]
            /\ op' = [op EXCEPT ![t].nested = "key"]
            /\ UNCHANGED <<local, ret>>
       ELSE /\ local' = [local EXCEPT ![t].text = translate(Self, op[t].key, op[t].ns)]
            /\ IF op[t].vals = <<>>
               THEN /\ ret' = [ret EXCEPT ![t] =
                         [kind |-> "ok", val |-> translate(Self, op[t].key, op[t].ns)]]
                    /\ pc' = [pc EXCEPT ![t] = "ret"]
               ELSE /\ pc' = [pc EXCEPT ![t] = "push"]
                    /\ UNCHANGED ret
            /\ UNCHANGED op
  /\ UNCHANGED <<lang, source, lockHolder, poisoned, overflow_checks>>

\* i18n! (lib.rs:136-137,153-154): the value expressions are evaluated and
\* pushed with the guard alive.
PushVals(t) ==
  /\ pc[t] = "push"
  /\ \E nested \in BOOLEAN :
       IF nested
       THEN /\ pc' = [pc EXCEPT ![t] = "relock"]
            /\ op' = [op EXCEPT ![t].nested = "arg"]
       ELSE /\ pc' = [pc EXCEPT ![t] = "inter"]
            /\ UNCHANGED op
  /\ UNCHANGED <<lang, source, lockHolder, poisoned, overflow_checks, local, ret>>

\* i18n! (lib.rs:138,155): i18n.trans_with_inter($key, vals, ns)
TransWithInter(t) ==
  /\ pc[t] = "inter"
  /\ LET r == trans_with_inter(Self, op[t].key, op[t].vals, op[t].ns, overflow_checks)
     IN  /\ ret' = [ret EXCEPT ![t] = r]
         /\ pc' = [pc EXCEPT ![t] = IF r.kind = "panic" THEN "panicking" ELSE "ret"]
  /\ UNCHANGED <<lang, source, lockHolder, poisoned, overflow_checks, op, local>>

\* A nested i18n! locks I18N on the thread that holds its guard.  Mutex::lock
\* then never returns: it blocks for ever (no step) or panics (this step).
RelockPanic(t) ==
  /\ pc[t] = "relock"
  /\ pc' = [pc EXCEPT ![t] = "panicking"]
  /\ ret' = [ret EXCEPT ![t] = [kind |-> "panic", val |-> <<>>]]
  /\ UNCHANGED <<lang, source, lockHolder, poisoned, overflow_checks, op, local>>

\* The guard is dropped at the end of the function or macro block and the
\* call returns.
Unlock(t) ==
  /\ pc[t] = "ret"
  /\ lockHolder' = IF lockHolder = Some(t) THEN None ELSE lockHolder
  /\ pc' = [pc EXCEPT ![t] = "idle"]
  /\ op' = [op EXCEPT ![t] = NoOp]
  /\ local' = [local EXCEPT ![t] = NoLocal]
  /\ ret' = [ret EXCEPT ![t] = NoRet]
  /\ UNCHANGED <<lang, source, poisoned, overflow_checks>>

\* The panic unwinds: the guard is dropped while panicking, which poisons
\* the mutex, and the panic leaves the call.
Unwind(t) ==
  /\ pc[t] = "panicking"
  /\ poisoned' = TRUE
  /\ lockHolder' = IF lockHolder = Some(t) THEN None ELSE lockHolder
  /\ pc' = [pc EXCEPT ![t] = "idle"]
  /\ op' = [op EXCEPT ![t] = NoOp]
  /\ local' = [local EXCEPT ![t] = NoLocal]
  /\ ret' = [ret EXCEPT ![t] = NoRet]
  /\ UNCHANGED <<lang, source, overflow_checks>>

Next ==
  \E t \in Threads :
    \/ Call(t)
    \/ Lock(t)
    \/ LockPoisoned(t)
    \/ SetLang(t)
    \/ ReadDir(t)
    \/ LoadEntry(t)
    \/ SetSource(t)
    \/ Translate(t)
    \/ PushVals(t)
    \/ TransWithInter(t)
    \/ RelockPanic(t)
    \/ Unlock(t)
    \/ Unwind(t)

Spec == Init /\ [][Next]_vars

\* A store method called directly: I18n::trans_with_inter (lib.rs:74-85)
\* on the store as constructed, for every text and value list.
CallTransWithInter(text, vals) ==
  /\ op' = [op EXCEPT ![1] = [NoOp EXCEPT !.kind = "inter", !.key = text, !.vals = vals]]
  /\ ret' = [ret EXCEPT ![1] = trans_with_inter(Self, text, vals, None, overflow_checks)]
  /\ UNCHANGED <<lang, source, lockHolder, poisoned, overflow_checks, pc, local>>

\* The direct call has returned (or its panic has left the call).
ReturnInter ==
  /\ op[1].kind = "inter"
  /\ op' = [op EXCEPT ![1] = NoOp]
  /\ ret' = [ret EXCEPT ![1] = NoRet]
  /\ UNCHANGED <<lang, source, lockHolder, poisoned, overflow_checks, pc, local>>

NextInter ==
  \/ /\ op[1].kind = "none"
     /\ \E text \in Texts, vals \in InterVals : CallTransWithInter(text, vals)
  \/ ReturnInter

SpecInter == Init /\ [][NextInter]_vars

\* ================================================================= claims
\* Helpers of the claims: what the statements say, stated without the code.

\* The namespace a lookup names ("common" when absent).
NsName(ns) == IF ns = None THEN "common" ELSE ns[1]

\* Whether table set src holds an entry for (l, ns, k).
Present(src, l, ns, k) ==
  /\ l \in DOMAIN src
  /\ NsName(ns) \in DOMAIN src[l]
  /\ k \in DOMAIN src[l][NsName(ns)]

\* The store between calls: no call holds the registry, so lang and source
\* are what the calls so far have left.
BetweenCalls == lockHolder = None

\* A thread whose i18n! arm without values is about to return.
TranslateReturns(t) == pc[t] = "ret" /\ op[t].kind = "i18n" /\ op[t].vals = <<>>

\* Two identifiers that differ only in case.
CaseEq(a, b) == to_lowercase(a) = to_lowercase(b)

\* The file name split at its last dot.
HasDot(name) == \E i \in 1..Len(name) : name[i] = "."
LastDot(name) ==
  CHOOSE i \in 1..Len(name) :
    name[i] = "." /\ \A j \in (i + 1)..Len(name) : name[j] # "."
Stem(name) == SubSeq(name, 1, LastDot(name) - 1)
Ext(name) == SubSeq(name, LastDot(name) + 1, Len(name))

\* The entries of a directory that are successfully parsed *.json files.
Loadable(dir) ==
  IF ~dir.exists THEN {}
  ELSE {i \in 1..Len(dir.entries) :
          LET e == dir.entries[i]
          IN  /\ ~e.is_dir
              /\ e.utf8
              /\ HasDot(e.name)
              /\ CaseEq(Ext(e.name), json)
              /\ e.ok}

\* The table set of a directory: one table per normalized stem, that of the
\* last loadable file in iteration order with that stem.
ExpectedTables(dir) ==
  LET ids == {to_uppercase(Stem(dir.entries[i].name)) : i \in Loadable(dir)}
      last(id) ==
        CHOOSE i \in Loadable(dir) :
          /\ to_uppercase(Stem(dir.entries[i].name)) = id
          /\ \A j \in Loadable(dir) :
               to_uppercase(Stem(dir.entries[j].name)) = id => j <= i
  IN  [id \in ids |-> dir.entries[last(id)].table]

CompleteTableSets == {EmptyMap} \cup {ExpectedTables(FileSystem[p]) : p \in Paths}

\* The placeholder tokens of a text, <<first, last>> index of each: "%" and
\* the maximal digit run after it.
Tokens(text) ==
  {tok \in (1..Len(text)) \X (1..Len(text)) :
     /\ text[tok[1]] = "%"
     /\ tok[2] > tok[1]
     /\ \A i \in (tok[1] + 1)..tok[2] : is_digit(text[i])
     /\ (tok[2] = Len(text) \/ ~is_digit(text[tok[2] + 1]))}

\* The ordinal of a token: its digit run as an integer of any size, or None.
Ordinal(text, tok) ==
  LET ds == SubSeq(text, tok[1] + 1, tok[2])
  IN  IF \A i \in 1..Len(ds) : is_ascii_digit(ds[i]) THEN Some(decimal(ds)) ELSE None

InRange(text, tok, vals) ==
  /\ Ordinal(text, tok) # None
  /\ Ordinal(text, tok)[1] >= 1
  /\ Ordinal(text, tok)[1] <= Len(vals)

IsZero(text, tok) == Ordinal(text, tok) = Some(0)

\* The interpolation the specification describes, from position i on.
RECURSIVE Interpolated(_, _, _)
Interpolated(text, i, vals) ==
  IF i > Len(text) THEN <<>>
  ELSE IF \E tok \in Tokens(text) : tok[1] = i
       THEN LET tok == CHOOSE x \in Tokens(text) : x[1] = i
            IN  (IF InRange(text, tok, vals) THEN vals[Ordinal(text, tok)[1]] ELSE <<>>)
                  \o Interpolated(text, tok[2] + 1, vals)
       ELSE <<text[i]>> \o Interpolated(text, i + 1, vals)

\* A direct call of trans_with_inter that has ended.
InterEnded(t) == op[t].kind = "inter" /\ ret[t].kind # "none"

\* ----------------------------------------------------------------------
\* C1 Identity fallback: in every store state between calls translate(k, ns)
\* is k whenever the active language has no table, or its table has no
\* namespace ns ("common" when absent), or that namespace has no key k;
\* and an i18n! call on such a key returns the key.
C1_IdentityFallback ==
  /\ BetweenCalls =>
       \A k \in Keys, ns \in NsInputs :
         ~Present(source, lang, ns, k) => translate(Self, k, ns) = k
  /\ \A t \in Threads :
       (TranslateReturns(t) /\ ~Present(source, lang, op[t].ns, op[t].key))
         => ret[t] = [kind |-> "ok", val |-> op[t].key]

\* A call returns its key although the active language has a table with
\* the "common" namespace: only the key is missing.
C1_Witness ==
  \E t \in Threads :
    /\ TranslateReturns(t)
    /\ op[t].ns = None
    /\ lang \in DOMAIN source
    /\ "common" \in DOMAIN source[lang]
    /\ op[t].key \notin DOMAIN source[lang]["common"]
    /\ ret[t].val = op[t].key

\* C2 Exact lookup: between calls, for every entry (l, ns, k) -> v of the loaded tables,
\* after set_lang(l) translate(k, ns) is exactly v; and an i18n! call on a
\* present entry of the active language returns its value.
C2_ExactLookup ==
  /\ BetweenCalls =>
       \A l \in DOMAIN source :
         \A n \in DOMAIN source[l] :
           \A k \in DOMAIN source[l][n] :
             translate([lang |-> I18n_set_lang(l), source |-> source], k, Some(n))
               = source[l][n][k]
  /\ \A t \in Threads :
       (TranslateReturns(t) /\ Present(source, lang, op[t].ns, op[t].key))
         => ret[t] = [kind |-> "ok", val |-> source[lang][NsName(op[t].ns)][op[t].key]]

\* A call returns a loaded value that differs from its key.
C2_Witness ==
  \E t \in Threads :
    /\ TranslateReturns(t)
    /\ op[t].key = Hi
    /\ op[t].ns = Some("formal")
    /\ ret[t].val = GoodDay

C7_SetSourceReplaces ==
  \A t \in Threads :
    /\ pc[t] = "assign" => local[t].map = ExpectedTables(FileSystem[op[t].path])
    /\ (pc[t] = "ret" /\ op[t].kind = "set_source") =>
         /\ source = ExpectedTables(FileSystem[op[t].path])
         /\ ~FileSystem[op[t].path].exists =>
              /\ DOMAIN source = {}
              /\ \A l \in LangInputs, k \in Keys, ns \in NsInputs :
                   translate([lang |-> I18n_set_lang(l), source |-> source], k, ns) = k

\* set_source on the mixed directory has loaded en.json and zh.JSON only.
C7_Witness ==
  \E t \in Threads :
    /\ pc[t] = "ret"
    /\ op[t].kind = "set_source"
    /\ op[t].path = "mixed"
    /\ DOMAIN source = {EN, to_uppercase(zh)}

\* C8 set_source is atomic for readers: while an i18n! call is between its
\* translate and its return, the table set is a complete one (the empty one
\* or the whole result of a load), no set_source is in the middle of its
\* load, the text it resolved is the translation in the current store, and
\* what it returns is the interpolation of that text.
C8_AtomicSetSource ==
  \A t \in Threads :
    (op[t].kind = "i18n" /\ pc[t] \in {"push", "inter", "ret"}) =>
      /\ source \in CompleteTableSets
      /\ \A u \in Threads \ {t} : pc[u] \notin {"locked", "load", "assign"}
      /\ local[t].text = translate(Self, op[t].key, op[t].ns)
      /\ (pc[t] = "ret" /\ op[t].vals # <<>>) =>
           ret[t] = replace_all(local[t].text, 1, op[t].vals, overflow_checks)

\* A set_source caller waits for the lock while an i18n! call with values
\* is inside, after an earlier load.
C8_Witness ==
  \E t \in Threads, u \in Threads :
    /\ op[t].kind = "i18n" /\ pc[t] = "inter"
    /\ op[u].kind = "set_source" /\ pc[u] = "lock"
    /\ source # EmptyMap

\* C10 Namespace default: in every store state between calls translate(k, None) equals translate(k,
\* Some("common")), and a lookup in a namespace returns the value stored
\* under exactly that namespace or the key, never another namespace's value.
C10_NamespaceDefault ==
  /\ BetweenCalls =>
       \A k \in Keys :
         /\ translate(Self, k, None) = translate(Self, k, Some("common"))
         /\ \A ns \in NsInputs \ {None} :
              translate(Self, k, ns) =
                IF lang \in DOMAIN source /\ ns[1] \in DOMAIN source[lang]
                   /\ k \in DOMAIN source[lang][ns[1]]
                THEN source[lang][ns[1]][k]
                ELSE k
  /\ \A t \in Threads :
       (TranslateReturns(t) /\ op[t].ns = None)
         => ret[t].val = translate(Self, op[t].key, Some("common"))

\* A call without namespace returns the "common" value of a key that has
\* another value under "formal".
C10_Witness ==
  \E t \in Threads :
    /\ TranslateReturns(t)
    /\ op[t].ns = None
    /\ lang \in DOMAIN source
    /\ "formal" \in DOMAIN source[lang]
    /\ op[t].key \in DOMAIN source[lang]["formal"]
    /\ ret[t].val = Hello
    /\ source[lang]["formal"][op[t].key] # Hello

\* C4 Interpolation in-range substitution: when every token of the text
\* has an ordinal n >= 1 with at least n values supplied (n above 255
\* included), trans_with_inter returns the text with each token replaced by
\* values[n-1] and everything else copied.
C4_InRangeSubstitution ==
  \A t \in Threads :
    LET text == translate(Self, op[t].key, op[t].ns)
    IN  (InterEnded(t) /\ \A tok \in Tokens(text) : InRange(text, tok, op[t].vals))
          => ret[t] = [kind |-> "ok", val |-> Interpolated(text, 1, op[t].vals)]

\* C5 Interpolation zero ordinal: a call on a text with a token of ordinal
\* 0 returns normally, and when all its tokens have ordinal 0 it returns the
\* text with the tokens removed.
C5_ZeroOrdinal ==
  \A t \in Threads :
    LET text == translate(Self, op[t].key, op[t].ns)
    IN  /\ (InterEnded(t) /\ \E tok \in Tokens(text) : IsZero(text, tok))
             => ret[t].kind = "ok"
        /\ (InterEnded(t) /\ Tokens(text) # {} /\ \A tok \in Tokens(text) : IsZero(text, tok))
             => ret[t].val = Interpolated(text, 1, op[t].vals)

\* C6 Translation never fails visibly: no call of the global registry
\* whose argument expressions are plain values ends in a panic (nested
\* invocations are the matter of C9).
C6_NeverFails == \A t \in Threads : op[t].nested = "none" => pc[t] # "panicking"

\* C9 Lock discipline: no thread locks the registry while it holds the
\* registry's guard, so no call blocks on itself.
C9_LockDiscipline == \A t \in Threads : pc[t] # "relock"

====
